---- MODULE Spec2Model ----
(***************************************************************************)
(* Row encoding of UTF-8 string columns (polars-row, variable/utf8.rs).    *)
(*                                                                         *)
(* Bytes are the integers 0..255.  A buffer cell is a byte or Uninit       *)
(* (MaybeUninit<u8>).  Positions and offsets are 0-based as in the source; *)
(* the cell at position p of a buffer is buffer[p + 1].                    *)
(* Option<T> is a sequence of length 0 (None) or 1 (Some(x)).              *)
(***************************************************************************)
EXTENDS Integers, Sequences, FiniteSets, TLC

\* ------------------------------------------------------------------ bounds

\* Rows of the single-column runs (SpecCol).
NumRows == 3
\* Characters per string of the single-column runs.
MaxLen == 1
\* Columns of the multi-column runs (SpecRows, SpecOrder).
NumCols == 2
\* Codes the categorical dictionary has room for (SpecCat).
CatSpace == 2
\* Bytes per row slice of the runs on arbitrary rows (SpecRaw).
RawLen == 1

\* ------------------------------------------------------------- basic types

None == <<>>
Some(x) == <<x>>
IsNone(o) == Len(o) = 0
IsSome(o) == Len(o) = 1
Unwrap(o) == o[1]

\* Result<T, E>
Ok(x) == [ok |-> TRUE, value |-> x]
Err(e) == [ok |-> FALSE, error |-> e]

Min(a, b) == IF a <= b THEN a ELSE b

\* A cell of &mut [MaybeUninit<u8>] that was never written.
Uninit == -1

\* u8 arithmetic: add and sub wrap as in a release build (a debug build
\* panics instead; no byte of a valid UTF-8 string, at most 0xF4, overflows
\* b + 2), xor and not are bitwise.
WrappingAdd(a, b) == (a + b) % 256
WrappingSub(a, b) == (a - b + 256) % 256

RECURSIVE XorBits(_, _, _)
XorBits(a, b, n) ==
    IF n = 0 THEN 0
    ELSE (((a % 2) + (b % 2)) % 2) + 2 * XorBits(a \div 2, b \div 2, n - 1)

\* The table of a ^ b over all pairs of bytes, computed once from the bits.
RECURSIVE XorRow(_, _, _)
XorRow(a, lo, hi) ==
    IF lo = hi THEN <<XorBits(a, lo, 8)>>
    ELSE XorRow(a, lo, (lo + hi) \div 2) \o XorRow(a, (lo + hi) \div 2 + 1, hi)

RECURSIVE XorRows(_, _)
XorRows(lo, hi) ==
    IF lo = hi THEN <<XorRow(lo, 0, 255)>>
    ELSE XorRows(lo, (lo + hi) \div 2) \o XorRows((lo + hi) \div 2 + 1, hi)

XorTable == XorRows(0, 255)

Xor8(a, b) == XorTable[a + 1][b + 1]
Not8(a) == Xor8(a, 255)

\* ------------------------------------------------------ RowEncodingOptions

\* The bitflags are a set of flag names; opt.contains(F) is F \in opt.
DESCENDING == "DESCENDING"
NULLS_LAST == "NULLS_LAST"
Flags == {DESCENDING, NULLS_LAST}
AllOptions == SUBSET Flags

contains(opt, flag) == flag \in opt

\* RowEncodingOptions::null_sentinel
null_sentinel(opt) == IF contains(opt, NULLS_LAST) THEN 255 ELSE 0

\* ----------------------------------------------------------- len_from_item

unwrap_or_default(a) == IF IsNone(a) THEN 0 ELSE Unwrap(a)

len_from_item(a, opt) == 1 + unwrap_or_default(a)

\* Option<&str> -> Option<usize>, the argument callers give len_from_item.
str_len(v) == IF IsNone(v) THEN None ELSE Some(Len(Unwrap(v)))

\* -------------------------------------------------------------- encode_str

\* let t = if opt.contains(DESCENDING) { 0xFF } else { 0x00 };
xor_mask(opt) == IF contains(opt, DESCENDING) THEN 255 ELSE 0

\* Faulty variants of encode_byte: a shift by one, and no shift at all.
encode_byte_shift1(t, b) == Xor8(t, WrappingAdd(b, 1))
encode_byte_noshift(t, b) == Xor8(t, b)

\* t ^ (b + 2)
encode_byte(t, b) == Xor8(t, WrappingAdd(b, 2))

\* Faulty variants of encode_terminator: not inverted under DESCENDING,
\* and 0x00.
encode_terminator_fixed(t) == 1
encode_terminator_zero(t) == Xor8(t, 0)

\* t ^ 0x01
encode_terminator(t) == Xor8(t, 1)

\* Faulty variants of encode_null: inverted under DESCENDING like every
\* other byte, and blind to NULLS_LAST.
encode_null_inverted(opt) == Xor8(xor_mask(opt), null_sentinel(opt))
encode_null_first(opt) == 0

\* MaybeUninit::new(null_sentinel)
encode_null(opt) == null_sentinel(opt)

\* Faulty variants of the cursor updates: the null byte and the terminator
\* are not counted.
advance_null_stuck(offset) == offset
advance_value_no_terminator(offset, s) == offset + Len(s)

\* *offset += 1  /  *offset += 1 + s.len()
advance_null(offset) == offset + 1
advance_value(offset, s) == offset + 1 + Len(s)

\* The memory encode_str works on: the buffer, how often each cell was
\* written, and whether a get_unchecked_mut went out of bounds.
Mem(buffer, nwrites, oob) == [buffer |-> buffer, nwrites |-> nwrites, oob |-> oob]

\* *dst.get_unchecked_mut(i) = MaybeUninit::new(byte), dst = buffer[offset..]
write_cell(mem, pos, byte) ==
    IF pos < Len(mem.buffer)
    THEN Mem([mem.buffer EXCEPT ![pos + 1] = byte],
             [mem.nwrites EXCEPT ![pos + 1] = @ + 1],
             mem.oob)
    ELSE Mem(mem.buffer, mem.nwrites, TRUE)

\* for (i, &b) in s.as_bytes().iter().enumerate() { dst[i] = t ^ (b + 2) }
RECURSIVE encode_payload(_, _, _, _, _)
encode_payload(mem, offset, s, t, i) ==
    IF i > Len(s) THEN mem
    ELSE encode_payload(write_cell(mem, offset + (i - 1), encode_byte(t, s[i])),
                        offset, s, t, i + 1)

\* One iteration of the zip loop: the match on opt_value.
encode_item(mem, offset, opt_value, opt) ==
    IF IsNone(opt_value)
    THEN write_cell(mem, offset, encode_null(opt))
    ELSE LET s == Unwrap(opt_value)
             m1 == encode_payload(mem, offset, s, xor_mask(opt), 1)
         IN  write_cell(m1, offset + Len(s), encode_terminator(xor_mask(opt)))

advance(offset, opt_value) ==
    IF IsNone(opt_value) THEN advance_null(offset)
    ELSE advance_value(offset, Unwrap(opt_value))

\* Faulty variant of encode_loop: every offset is processed, those without
\* an item as nulls.
RECURSIVE encode_loop_all_offsets(_, _, _, _, _)
encode_loop_all_offsets(mem, offsets, input, opt, i) ==
    IF i > Len(offsets)
    THEN [mem |-> mem, offsets |-> offsets]
    ELSE LET item == IF i <= Len(input) THEN input[i] ELSE None IN
         encode_loop_all_offsets(encode_item(mem, offsets[i], item, opt),
                                 [offsets EXCEPT ![i] = advance(offsets[i], item)],
                                 input, opt, i + 1)

\* for (offset, opt_value) in offsets.iter_mut().zip(input): the first
\* Min(Len(offsets), Len(input)) pairs, in order.
RECURSIVE encode_loop(_, _, _, _, _)
encode_loop(mem, offsets, input, opt, i) ==
    IF i > Min(Len(offsets), Len(input))
    THEN [mem |-> mem, offsets |-> offsets]
    ELSE encode_loop(encode_item(mem, offsets[i], input[i], opt),
                     [offsets EXCEPT ![i] = advance(offsets[i], input[i])],
                     input, opt, i + 1)

encode_str(mem, input, opt, offsets) == encode_loop(mem, offsets, input, opt, 1)

\* -------------------------------------------------------------- decode_str

\* Faulty variant of decode_terminator: 0x01 in either direction.
decode_terminator_asc(descending) == 1

\* The terminator the decoder scans for: 0xFE descending, 0x01 ascending.
decode_terminator(descending) == IF descending THEN 254 ELSE 1

\* Faulty variant of decode_byte: the descending branch does not invert.
decode_byte_no_invert(descending, v) == WrappingSub(v, 2)

\* .map(|&v| !v - 2)  /  .map(|&v| v - 2)
decode_byte(descending, v) ==
    IF descending THEN WrappingSub(Not8(v), 2) ELSE WrappingSub(v, 2)

\* row.iter().take_while(|&b| *b != term): the longest prefix without term.
RECURSIVE take_while_len(_, _, _)
take_while_len(row, term, i) ==
    IF i > Len(row) \/ row[i] = term THEN i - 1
    ELSE take_while_len(row, term, i + 1)

\* scratch.clear(); scratch.extend(take_while(..).map(..))
scratch_of(row, descending) ==
    LET n == take_while_len(row, decode_terminator(descending), 1)
    IN  [i \in 1..n |-> decode_byte(descending, row[i])]

\* row.get_unchecked(n..): the slice without its first n bytes; out of
\* bounds when n > row.len().
slice_from(row, n) == SubSeq(row, n + 1, Len(row))
slice_oob(row, n) == n > Len(row)

\* Faulty variant of skip_null: the sentinel is left in the slice.
skip_null_stuck(row) == row

\* Faulty variant of skip_value: the terminator is left in the slice.
skip_value_no_terminator(row, scratch) == slice_from(row, Len(scratch))

\* *row = row.get_unchecked(1..)  /  *row = row.get_unchecked(1 + scratch.len()..)
skip_null(row) == slice_from(row, 1)
skip_value(row, scratch) == slice_from(row, 1 + Len(scratch))

\* The byte a read one past the end of a row slice finds: whatever the
\* memory after the slice holds.
VARIABLE junk

\* *row.get_unchecked(0): on an empty row the read is out of bounds and
\* yields the byte behind the slice; the callers below flag it in oob.
get_unchecked_0(row) == IF Len(row) = 0 THEN junk ELSE row[1]

\* let sentinel = *row.get_unchecked(0); sentinel == null_sentinel
first_is_null(row, opt) == get_unchecked_0(row) = null_sentinel(opt)

\* The decoder's state: the row slices, the values pushed so far, the
\* validity builder (None until the first null) and the out-of-bounds flag.
Dec(rows, values, validity, oob) ==
    [rows |-> rows, values |-> values, validity |-> validity, oob |-> oob]

\* The first loop (lines 82-98): up to and including the first null row,
\* whose slice it advances before it breaks.
RECURSIVE decode_first(_, _, _)
decode_first(d, opt, i) ==
    IF i > Len(d.rows) THEN d
    ELSE LET row == d.rows[i] IN
         IF first_is_null(row, opt)
         THEN Dec([d.rows EXCEPT ![i] = skip_null(row)], d.values, d.validity,
                  d.oob \/ Len(row) = 0)
         ELSE LET scratch == scratch_of(row, contains(opt, DESCENDING)) IN
              decode_first(Dec([d.rows EXCEPT ![i] = skip_value(row, scratch)],
                               Append(d.values, scratch), d.validity,
                               d.oob \/ slice_oob(row, 1 + Len(scratch))),
                           opt, i + 1)

\* The second loop (lines 109-127) over rows[array.len()..].
RECURSIVE decode_rest(_, _, _)
decode_rest(d, opt, i) ==
    IF i > Len(d.rows) THEN d
    ELSE LET row == d.rows[i] IN
         IF first_is_null(row, opt)
         THEN decode_rest(Dec([d.rows EXCEPT ![i] = skip_null(row)],
                              Append(d.values, <<>>),
                              Some(Append(Unwrap(d.validity), FALSE)),
                              d.oob \/ Len(row) = 0),
                          opt, i + 1)
         ELSE LET scratch == scratch_of(row, contains(opt, DESCENDING)) IN
              decode_rest(Dec([d.rows EXCEPT ![i] = skip_value(row, scratch)],
                              Append(d.values, scratch),
                              Some(Append(Unwrap(d.validity), TRUE)),
                              d.oob \/ slice_oob(row, 1 + Len(scratch))),
                          opt, i + 1)

\* Faulty variant of promote: the rows already emitted get no bit.
promote_no_backfill(d) ==
    Dec(d.rows, Append(d.values, <<>>), Some(<<FALSE>>), d.oob)

\* validity.extend_constant(array.len(), true); validity.push(false);
\* array.push_value_ignore_validity("").  The bitmap holds a false bit from
\* here on, so into_opt_validity() keeps it.
promote(d) ==
    Dec(d.rows, Append(d.values, <<>>),
        Some([k \in 1..(Len(d.values) + 1) |-> k <= Len(d.values)]), d.oob)

decode_str(rows, opt) ==
    LET d1 == decode_first(Dec(rows, <<>>, None, FALSE), opt, 1) IN
    IF Len(d1.values) = Len(rows) THEN d1
    ELSE LET d2 == promote(d1) IN decode_rest(d2, opt, Len(d2.values) + 1)

\* --------------------------------------------------------- len_from_buffer

\* row.iter().position(|&b| b == term): the 0-based place of the first term.
RECURSIVE position(_, _, _)
position(row, term, i) ==
    IF i > Len(row) THEN None
    ELSE IF row[i] = term THEN Some(i - 1)
    ELSE position(row, term, i + 1)

\* Faulty variant of len_from_buffer: the terminator is not counted.
len_from_buffer_no_terminator(row, opt) ==
    IF get_unchecked_0(row) = null_sentinel(opt)
    THEN [len |-> Some(1), ub |-> Len(row) = 0]
    ELSE LET end == position(row, decode_terminator(contains(opt, DESCENDING)), 1) IN
         IF IsNone(end) THEN [len |-> None, ub |-> TRUE]
         ELSE [len |-> Some(Unwrap(end)), ub |-> FALSE]

\* The length of the first value of row, and whether an unchecked access
\* broke its contract on the way: get_unchecked(0) on an empty row,
\* unwrap_unchecked() on the None of a row without terminator (the length is
\* not defined then).
len_from_buffer(row, opt) ==
    IF get_unchecked_0(row) = null_sentinel(opt)
    THEN [len |-> Some(1), ub |-> Len(row) = 0]
    ELSE LET end == position(row, decode_terminator(contains(opt, DESCENDING)), 1) IN
         IF IsNone(end) THEN [len |-> None, ub |-> TRUE]
         ELSE [len |-> Some(Unwrap(end) + 1), ub |-> FALSE]

\* decode_str leaves the bounds of this row's slice: the slice is empty, or
\* it holds a value without terminator.
row_oob(row, opt) ==
    \/ Len(row) = 0
    \/ /\ ~first_is_null(row, opt)
       /\ slice_oob(row, 1 + Len(scratch_of(row, contains(opt, DESCENDING))))

\* ------------------------------------------------------- decode_str_as_cat

\* The CategoricalMapping: the distinct strings interned so far; the code of
\* a string is its 0-based place.  insert_cat returns the code of a string
\* already interned, interns a new one while there are codes left, and
\* fails once they are used up.
has_cat(mapping, s) == \E k \in 1..Len(mapping) : mapping[k] = s
cat_of(mapping, s) == (CHOOSE k \in 1..Len(mapping) : mapping[k] = s) - 1
insert_cat(mapping, s) ==
    IF has_cat(mapping, s)
    THEN [mapping |-> mapping, result |-> Ok(cat_of(mapping, s))]
    ELSE IF Len(mapping) < CatSpace
    THEN [mapping |-> Append(mapping, s), result |-> Ok(Len(mapping))]
    ELSE [mapping |-> mapping, result |-> Err("out of codes")]

\* T::from_cat(cat) for the physical type u8: cat as u8.
from_cat(cat) == cat % 256

\* T::zeroed()
zeroed == 0

\* The decoder's state: the row slices, the codes pushed so far, the
\* validity builder, the out-of-bounds flag, the dictionary, the strings
\* insert_cat was called with, and whether an unwrap() panicked.
CatDec(rows, out, validity, oob, mapping, inserts, panicked) ==
    [rows |-> rows, out |-> out, validity |-> validity, oob |-> oob,
     mapping |-> mapping, inserts |-> inserts, panicked |-> panicked]

\* Faulty variant of cat_null: the placeholder is interned as well.
cat_null_interned(c, i) ==
    LET r == insert_cat(c.mapping, <<>>) IN
    [c EXCEPT !.rows[i] = skip_null(@),
              !.out = Append(@, zeroed),
              !.mapping = r.mapping,
              !.inserts = Append(@, <<>>),
              !.oob = @ \/ Len(c.rows[i]) = 0]

\* *row = row.get_unchecked(1..); out.push(T::zeroed())
cat_null(c, i) ==
    [c EXCEPT !.rows[i] = skip_null(@),
              !.out = Append(@, zeroed),
              !.oob = @ \/ Len(c.rows[i]) = 0]

\* *row = row.get_unchecked(1 + scratch.len()..);
\* out.push(T::from_cat(mapping.insert_cat(s).unwrap())): the unwrap of an
\* Err panics, after the slice has moved.
cat_value(c, i, scratch) ==
    LET r == insert_cat(c.mapping, scratch)
        moved == [c EXCEPT !.rows[i] = skip_value(@, scratch),
                           !.oob = @ \/ slice_oob(c.rows[i], 1 + Len(scratch)),
                           !.mapping = r.mapping,
                           !.inserts = Append(@, scratch)]
    IN  IF r.result.ok
        THEN [moved EXCEPT !.out = Append(@, from_cat(r.result.value))]
        ELSE [moved EXCEPT !.panicked = TRUE]

\* The first loop (lines 147-164): up to and including the first null row.
RECURSIVE cat_first(_, _, _)
cat_first(c, opt, i) ==
    IF i > Len(c.rows) \/ c.panicked THEN c
    ELSE LET row == c.rows[i] IN
         IF first_is_null(row, opt)
         THEN [c EXCEPT !.rows[i] = skip_null(@), !.oob = @ \/ Len(row) = 0]
         ELSE cat_first(cat_value(c, i, scratch_of(row, contains(opt, DESCENDING))),
                        opt, i + 1)

\* The second loop (lines 175-194) over rows[out.len()..].
RECURSIVE cat_rest(_, _, _)
cat_rest(c, opt, i) ==
    IF i > Len(c.rows) \/ c.panicked THEN c
    ELSE LET row == c.rows[i]
             null == first_is_null(row, opt)
             pushed == [c EXCEPT !.validity = Some(Append(Unwrap(@), ~null))]
         IN  IF null
             THEN cat_rest(cat_null(pushed, i), opt, i + 1)
             ELSE cat_rest(cat_value(pushed, i,
                                     scratch_of(row, contains(opt, DESCENDING))),
                           opt, i + 1)

\* Faulty variant of cat_promote: the rows already emitted get no bit.
cat_promote_no_backfill(c) ==
    [c EXCEPT !.validity = Some(<<FALSE>>), !.out = Append(@, zeroed)]

\* validity.extend_constant(out.len(), true); validity.push(false);
\* out.push(T::zeroed())
cat_promote(c) ==
    [c EXCEPT !.validity = Some([k \in 1..(Len(c.out) + 1) |-> k <= Len(c.out)]),
              !.out = Append(@, zeroed)]

decode_str_as_cat(rows, opt, mapping) ==
    LET c1 == cat_first(CatDec(rows, <<>>, None, FALSE, mapping, <<>>, FALSE), opt, 1) IN
    IF c1.panicked \/ Len(c1.out) = Len(rows) THEN c1
    ELSE LET c2 == cat_promote(c1) IN cat_rest(c2, opt, Len(c2.out) + 1)

\* ------------------------------------------------------------ input domain

\* UTF-8 encodings of U+0000, U+0061 'a', U+0080 and U+10FFFF: the smallest
\* and the largest byte a valid string can hold (0x00, 0xF4), continuation
\* bytes (0x80, 0x8F, 0xBF) and a lead byte of a two-byte sequence (0xC2).
CharNul == <<0>>
CharA == <<97>>
CharU80 == <<194, 128>>
CharMax == <<244, 143, 191, 191>>
Chars == {CharNul, CharMax}

RECURSIVE StrsOfChars(_)
StrsOfChars(k) ==
    IF k = 0 THEN {<<>>}
    ELSE {s \o c : s \in StrsOfChars(k - 1), c \in Chars}

\* Valid UTF-8 strings of at most MaxLen characters.
Strs == UNION {StrsOfChars(k) : k \in 0..MaxLen}

\* Option<&str>: the items of a string column.
Values == {None} \cup {Some(s) : s \in Strs}

\* The items of the rows that are compared (SpecOrder): the empty string, a
\* string, an extension of it and a string greater than both.
OrderStrs == {<<>>, CharA, CharA \o CharU80, CharU80}
OrderValues == {None} \cup {Some(s) : s \in OrderStrs}

\* The items of the rows that are assembled (SpecRows): the three lengths a
\* null, an empty and a non-empty string take.
AsmValues == {None, Some(<<>>), Some(CharA \o CharU80)}

\* ------------------------------------------------------------------- state

VARIABLES
    columns,        \* the input: one sequence of Option<&str> per column
    options,        \* RowEncodingOptions per column
    input,          \* the items a call of encode_str on part of a column got
    phase,          \* "input", "encode", "decode"
    row_starts,     \* the assembler's offsets[0..=R]
    offsets,        \* the cursor vector encode_str advances in place
    entry_offsets,  \* offsets as they were on entry of the last encode_str
    buffer,         \* the row buffer, a cell per byte
    nwrites,        \* how often each cell of buffer was written
    encoded,        \* number of columns encode_str has been called for
    rows,           \* the row slices decode_str advances
    entry_rows,     \* rows as they were on entry of the last decode_str
    arrays,         \* the decoded column of each decode_str call so far
    oob,            \* an unchecked access went out of bounds
    outcome,        \* how the last decoder call ended
    lens,           \* what len_from_buffer returned for each row
    scan,           \* decode_str taken step by step: its locals
    mapping,        \* the CategoricalMapping: its categories, by code
    inserts,        \* the strings insert_cat was called with, in order
    cats,           \* the array of each decode_str_as_cat call so far
    threads,        \* concurrent encode_str invocations: their locals
    py_opts,        \* the opts argument of _row_encode: a tuple per column
    call            \* the encoder _row_encode called, with its arguments

\* What the calls on well-formed rows of strings leave alone.
others == <<junk, outcome, lens, scan, mapping, inserts, cats, threads>>

\* What belongs to the Python binding.
binding == <<py_opts, call>>

vars == <<binding, columns, options, input, phase, row_starts, offsets,
          entry_offsets, buffer, nwrites, encoded, rows, entry_rows, arrays, oob, others>>

NCols == Len(columns)
NRows == Len(columns[1])

InitShape(ncols, nrows, vals) ==
    /\ columns \in [1..ncols -> [1..nrows -> vals]]
    /\ options \in [1..ncols -> AllOptions]
    /\ input = <<>>
    /\ py_opts = <<>>
    /\ call = None
    /\ phase = "input"
    /\ row_starts = <<>>
    /\ offsets = <<>>
    /\ entry_offsets = <<>>
    /\ buffer = <<>>
    /\ nwrites = <<>>
    /\ encoded = 0
    /\ rows = <<>>
    /\ entry_rows = <<>>
    /\ arrays = <<>>
    /\ oob = FALSE
    /\ outcome = "running"
    /\ lens = <<>>
    /\ scan = [pc |-> "idle"]
    /\ inserts = <<>>
    /\ cats = <<>>
    /\ threads = <<>>

\* ------------------------------------------------------------- _row_encode

\* Faulty variant of is_unordered: the third flag of any tuple counts.
is_unordered_any(opts) == \E i \in 1..Len(opts) : opts[i][3]

\* opts.first().is_some_and(|(_, _, v)| *v); opts.first() is the first
\* tuple, None for an empty vector.
is_unordered(opts) ==
    LET first == IF Len(opts) = 0 THEN None ELSE Some(opts[1])
    IN  IsSome(first) /\ Unwrap(first)[3]

\* The body of _row_encode up to the `?`: the encoder it calls, with the
\* arguments it passes; descending and nulls_last are collected from the
\* first and the second component of every tuple.
row_encode(df, opts) ==
    IF is_unordered(opts)
    THEN [fn |-> "_get_rows_encoded_ca_unordered", name |-> "row_enc", by |-> df]
    ELSE LET descending == [i \in 1..Len(opts) |-> opts[i][1]]
             nulls_last == [i \in 1..Len(opts) |-> opts[i][2]]
         IN  [fn |-> "_get_rows_encoded_ca", name |-> "row_enc", by |-> df,
              descending |-> descending, nulls_last |-> nulls_last]

\* PyDataFrame::_row_encode: the call is made, and its result, the encoded
\* column or an error, is what the method returns.
RowEncode ==
    /\ phase = "python"
    /\ call = None
    /\ call' = Some(row_encode(columns, py_opts))
    /\ outcome' \in {"returned", "raised"}
    /\ UNCHANGED <<py_opts, columns, options, input, phase, row_starts, offsets,
                   entry_offsets, buffer, nwrites, encoded, rows, entry_rows, arrays,
                   oob, junk, lens, scan, mapping, inserts, cats, threads>>

NextEnc == RowEncode

\* What opts may be: a (descending, nulls_last, unordered) tuple for each of
\* up to NumCols columns.
AllOpts == UNION {[1..n -> BOOLEAN \X BOOLEAN \X BOOLEAN] : n \in 0..NumCols}

\* A frame of NumCols columns of one row, and any opts.
InitEnc ==
    /\ columns \in [1..NumCols -> [1..1 -> {None, Some(<<>>)}]]
    /\ py_opts \in AllOpts
    /\ call = None
    /\ options = <<>>
    /\ input = <<>>
    /\ phase = "python"
    /\ row_starts = <<>>
    /\ offsets = <<>>
    /\ entry_offsets = <<>>
    /\ buffer = <<>>
    /\ nwrites = <<>>
    /\ encoded = 0
    /\ rows = <<>>
    /\ entry_rows = <<>>
    /\ arrays = <<>>
    /\ oob = FALSE
    /\ junk = Uninit
    /\ outcome = "running"
    /\ lens = <<>>
    /\ scan = [pc |-> "idle"]
    /\ mapping = <<>>
    /\ inserts = <<>>
    /\ cats = <<>>
    /\ threads = <<>>
SpecEnc == InitEnc /\ [][NextEnc]_vars

\* ------------------------------------------------------------ row assembly

\* The encoded length of row i: the sum of len_from_item over the columns.
RECURSIVE row_len(_, _, _, _)
row_len(cols, opts, i, c) ==
    IF c > Len(cols) THEN 0
    ELSE len_from_item(str_len(cols[c][i]), opts[c]) + row_len(cols, opts, i, c + 1)

\* offsets[0] = 0, offsets[i + 1] = offsets[i] + length of row i.
RECURSIVE row_offsets(_, _, _)
row_offsets(cols, opts, n) ==
    IF n = 0 THEN <<0>>
    ELSE LET prev == row_offsets(cols, opts, n - 1)
         IN  Append(prev, prev[n] + row_len(cols, opts, n, 1))

\* Sum the lengths, allocate the buffer, place the write cursors at the
\* row starts.
RowLengths ==
    /\ phase = "input"
    /\ LET starts == row_offsets(columns, options, NRows) IN
       /\ row_starts' = starts
       /\ offsets' = SubSeq(starts, 1, NRows)
       /\ buffer' = [p \in 1..starts[NRows + 1] |-> Uninit]
       /\ nwrites' = [p \in 1..starts[NRows + 1] |-> 0]
    /\ phase' = "encode"
    /\ UNCHANGED <<binding, columns, options, input,
                   entry_offsets, encoded, rows, entry_rows,
                   arrays, oob, others>>

\* One call of encode_str, for the next column.
EncodeStr ==
    /\ phase = "encode"
    /\ encoded < NCols
    /\ LET c == encoded + 1
           r == encode_str(Mem(buffer, nwrites, oob), columns[c], options[c], offsets)
       IN  /\ buffer' = r.mem.buffer
           /\ nwrites' = r.mem.nwrites
           /\ oob' = r.mem.oob
           /\ offsets' = r.offsets
           /\ entry_offsets' = offsets
           /\ encoded' = c
    /\ UNCHANGED <<binding, columns, options, input,
                   phase, row_starts, rows, entry_rows, arrays,
                   others>>

\* The encoded rows handed to the decoder: row i is
\* buffer[row_starts[i]..row_starts[i + 1]].
SplitRows ==
    /\ phase = "encode"
    /\ encoded = NCols
    /\ rows' = [i \in 1..NRows |-> SubSeq(buffer, row_starts[i] + 1, row_starts[i + 1])]
    /\ phase' = "decode"
    /\ UNCHANGED <<binding, columns, options, input,
                   row_starts, offsets, entry_offsets, buffer,
                   nwrites, encoded, entry_rows, arrays, oob, others>>

\* One call of decode_str, for the next column.
DecodeStr ==
    /\ phase = "decode"
    /\ Len(arrays) < NCols
    /\ LET d == decode_str(rows, options[Len(arrays) + 1]) IN
       /\ rows' = d.rows
       /\ arrays' = Append(arrays, [values |-> d.values, validity |-> d.validity])
       /\ oob' = (oob \/ d.oob)
       /\ entry_rows' = rows
    /\ UNCHANGED <<binding, columns, options, input,
                   phase, row_starts, offsets, entry_offsets,
                   buffer, nwrites, encoded, others>>

Next == RowLengths \/ EncodeStr \/ SplitRows \/ DecodeStr

\* Rows of well-formed strings: nothing is read behind a slice, and no
\* dictionary is in use.
InitStrings(ncols, nrows, vals) ==
    /\ InitShape(ncols, nrows, vals)
    /\ junk = Uninit
    /\ mapping = <<>>

\* A single string column of NumRows rows.
InitCol == InitStrings(1, NumRows, Values)
SpecCol == InitCol /\ [][Next]_vars

\* Two rows over NumCols string columns: a row and the row after it.
InitRows == InitStrings(NumCols, 2, AsmValues)
SpecRows == InitRows /\ [][Next]_vars

\* One row over NumCols string columns, to be compared with every other.
InitOrder == InitStrings(NumCols, 1, OrderValues)
SpecOrder == InitOrder /\ [][Next]_vars

\* One row holding one byte of 0x00..=0xFD, valid UTF-8 or not: the bytes the
\* shift by two is said to be safe for.
ShiftBytes == 0..253
InitBytes == InitStrings(1, 1, {Some(<<b>>) : b \in ShiftBytes})
SpecBytes == InitBytes /\ [][Next]_vars

\* ---------------------------------- encode_str on part of a column

\* One call of encode_str with the first m of the assembler's offsets (the
\* row starts and the end of the last row) and the first n items of the
\* column.
EncodeFrame ==
    /\ phase = "encode"
    /\ encoded = 0
    /\ \E m \in 0..(NRows + 1), n \in 0..NRows :
          LET r == encode_str(Mem(buffer, nwrites, oob), SubSeq(columns[1], 1, n),
                              options[1], SubSeq(row_starts, 1, m))
          IN  /\ buffer' = r.mem.buffer
              /\ nwrites' = r.mem.nwrites
              /\ oob' = r.mem.oob
              /\ offsets' = r.offsets
              /\ entry_offsets' = SubSeq(row_starts, 1, m)
              /\ input' = SubSeq(columns[1], 1, n)
    /\ encoded' = 1
    /\ UNCHANGED <<binding, columns, options, phase, row_starts, rows, entry_rows,
                   arrays, others>>

NextFrame == RowLengths \/ EncodeFrame

\* A single string column of NumRows rows, encoded in part.
InitFrame == InitStrings(1, NumRows, {None, Some(<<>>), Some(CharA)})
SpecFrame == InitFrame /\ [][NextFrame]_vars

\* ------------------------------------------- encode_str, two calls at once

\* The locals of an encode_str call on the rows lo..hi of the column (its
\* sub-slice of offsets and its part of the input): the row it is at, the
\* byte of the row's string it is at, whether it is to write a byte or to
\* move the cursor, and the positions it has written.
Thread(lo, hi) ==
    [lo |-> lo, hi |-> hi, i |-> lo, j |-> 0,
     pc |-> IF lo <= hi THEN "write" ELSE "done", written |-> {}]

\* Faulty variant of dst_at: the buffer is not sliced at the cursor.
dst_unsliced(offset, i) == i

\* dst = buffer.get_unchecked_mut(*offset..); dst.get_unchecked_mut(i)
dst_at(offset, i) == offset + i

\* The caller splits the rows at m and starts a call on either part.
Spawn ==
    /\ phase = "encode"
    /\ threads = <<>>
    /\ \E m \in 0..NRows : threads' = <<Thread(1, m), Thread(m + 1, NRows)>>
    /\ UNCHANGED <<binding, columns, options, input,
                   phase, row_starts, offsets, entry_offsets,
                   buffer, nwrites, encoded, rows, entry_rows, arrays, oob, junk,
                   outcome, lens, scan, mapping, inserts, cats>>

\* The write of one cell by call t, at pos.
ParWrite(t, pos, byte, pc) ==
    LET m == write_cell(Mem(buffer, nwrites, oob), pos, byte) IN
    /\ buffer' = m.buffer
    /\ nwrites' = m.nwrites
    /\ oob' = m.oob
    /\ threads' = [threads EXCEPT ![t].written = @ \cup {pos},
                                  ![t].j = IF pc = "write" THEN @ + 1 ELSE @,
                                  ![t].pc = pc]
    /\ UNCHANGED <<binding, columns, options, input,
                   phase, row_starts, offsets, entry_offsets,
                   encoded, rows, entry_rows, arrays, junk, outcome, lens, scan,
                   mapping, inserts, cats>>

\* *dst.get_unchecked_mut(0) = MaybeUninit::new(null_sentinel)
ParWriteNull(t) ==
    /\ threads[t].pc = "write"
    /\ IsNone(columns[1][threads[t].i])
    /\ ParWrite(t, dst_at(offsets[threads[t].i], 0), encode_null(options[1]), "advance")

\* *dst.get_unchecked_mut(i) = MaybeUninit::new(t ^ (b + 2))
ParWriteByte(t) ==
    /\ threads[t].pc = "write"
    /\ ~IsNone(columns[1][threads[t].i])
    /\ LET s == Unwrap(columns[1][threads[t].i])
           j == threads[t].j
       IN  /\ j < Len(s)
           /\ ParWrite(t, dst_at(offsets[threads[t].i], j),
                       encode_byte(xor_mask(options[1]), s[j + 1]), "write")

\* *dst.get_unchecked_mut(s.len()) = MaybeUninit::new(t ^ 0x01)
ParWriteTerminator(t) ==
    /\ threads[t].pc = "write"
    /\ ~IsNone(columns[1][threads[t].i])
    /\ LET s == Unwrap(columns[1][threads[t].i]) IN
       /\ threads[t].j = Len(s)
       /\ ParWrite(t, dst_at(offsets[threads[t].i], Len(s)),
                   encode_terminator(xor_mask(options[1])), "advance")

\* *offset += 1  /  *offset += 1 + s.len(), and on to the next pair.
ParAdvance(t) ==
    /\ threads[t].pc = "advance"
    /\ LET i == threads[t].i IN
       /\ offsets' = [offsets EXCEPT ![i] = advance(@, columns[1][i])]
       /\ threads' = [threads EXCEPT ![t].i = i + 1,
                                     ![t].j = 0,
                                     ![t].pc = IF i < threads[t].hi THEN "write"
                                               ELSE "done"]
    /\ UNCHANGED <<binding, columns, options, input,
                   phase, row_starts, entry_offsets, buffer,
                   nwrites, encoded, rows, entry_rows, arrays, oob, junk, outcome,
                   lens, scan, mapping, inserts, cats>>

NextPar ==
    \/ RowLengths
    \/ Spawn
    \/ \E t \in 1..Len(threads) : ParWriteNull(t)
    \/ \E t \in 1..Len(threads) : ParWriteByte(t)
    \/ \E t \in 1..Len(threads) : ParWriteTerminator(t)
    \/ \E t \in 1..Len(threads) : ParAdvance(t)

\* The items of the column two calls encode at once.
ParValues == {None, Some(<<>>), Some(CharA)}

\* A single string column of NumRows rows, encoded by two calls.
InitPar == InitStrings(1, NumRows, ParValues)
SpecPar == InitPar /\ [][NextPar]_vars

\* ------------------------------------------------- categorical decoding

\* One call of decode_str_as_cat, for the next column, on the caller's
\* dictionary: it returns the array of codes, or unwinds from the panic of
\* unwrap() with the slices and the dictionary as they are by then.
DecodeStrAsCat ==
    /\ phase = "decode"
    /\ outcome # "panicked"
    /\ Len(cats) < NCols
    /\ LET c == decode_str_as_cat(rows, options[Len(cats) + 1], mapping) IN
       /\ rows' = c.rows
       /\ mapping' = c.mapping
       /\ inserts' = c.inserts
       /\ oob' = (oob \/ c.oob)
       /\ cats' = IF c.panicked THEN cats
                  ELSE Append(cats, [values |-> c.out, validity |-> c.validity])
       /\ outcome' = IF c.panicked THEN "panicked" ELSE "returned"
       /\ entry_rows' = rows
    /\ UNCHANGED <<binding, columns, options, input,
                   phase, row_starts, offsets, entry_offsets,
                   buffer, nwrites, encoded, arrays, junk, lens, scan, threads>>

NextCat == RowLengths \/ EncodeStr \/ SplitRows \/ DecodeStrAsCat

\* The strings of the categorical columns, and the strings a dictionary may
\* hold on entry: those and one no column holds.
CatStrs == {<<>>, CharA, CharU80}
CatValues == {None} \cup {Some(s) : s \in CatStrs}
DictStrs == CatStrs \cup {CharMax}

\* The dictionaries the caller may pass: up to CatSpace distinct strings.
Mappings ==
    {m \in UNION {[1..n -> DictStrs] : n \in 0..CatSpace} :
        \A j, k \in 1..Len(m) : m[j] = m[k] => j = k}

\* A single categorical column of NumRows rows and the caller's dictionary.
InitCat ==
    /\ InitShape(1, NumRows, CatValues)
    /\ junk = Uninit
    /\ mapping \in Mappings
SpecCat == InitCat /\ [][NextCat]_vars

\* ---------------------------------------------------------- arbitrary rows

\* The bytes of the rows that no encoder made: the sentinels, the
\* terminators and a payload byte.
RawBytes == {0, 1, 99, 254, 255}
RawSlices == UNION {[1..n -> RawBytes] : n \in 0..RawLen}

\* What a slice moved past its end shows: nothing, or the memory behind.
UBSlices == {<<>>, <<junk>>}

\* What unwrap_unchecked() makes of a None: any length.
UBLens == 0..(RawLen + 2)

\* len_from_buffer on every row.  Where an unchecked access breaks its
\* contract the behaviour is undefined: a build that checks the contract
\* aborts, any other goes on with what it finds.
LenFromBuffer ==
    /\ phase = "raw"
    /\ LET r == [i \in 1..Len(rows) |-> len_from_buffer(rows[i], options[1])]
           ub == \E i \in 1..Len(rows) : r[i].ub
       IN  /\ oob' = (oob \/ ub)
           /\ entry_rows' = rows
           /\ \/ /\ ub
                 /\ outcome' = "aborted"
                 /\ UNCHANGED <<lens, phase>>
              \/ /\ \E g \in [1..Len(rows) -> UBLens] :
                        lens' = [i \in 1..Len(rows) |->
                                    IF IsNone(r[i].len) THEN g[i] ELSE Unwrap(r[i].len)]
                 /\ outcome' = "returned"
                 /\ phase' = "measured"
    /\ UNCHANGED <<binding, columns, options, input,
                   row_starts, offsets, entry_offsets, buffer,
                   nwrites, encoded, rows, arrays, junk, scan, mapping, inserts,
                   cats, threads>>

\* decode_str on the rows, with the same choice where it leaves a slice.
DecodeRaw ==
    /\ phase = "measured"
    /\ outcome # "aborted"
    /\ LET opt == options[1]
           d == decode_str(rows, opt)
       IN  /\ oob' = (oob \/ d.oob)
           /\ entry_rows' = rows
           /\ \/ /\ d.oob
                 /\ outcome' = "aborted"
                 /\ UNCHANGED <<rows, arrays, phase>>
              \/ /\ \E g \in [1..Len(rows) -> UBSlices] :
                        rows' = [i \in 1..Len(rows) |->
                                    IF row_oob(rows[i], opt) THEN g[i] ELSE d.rows[i]]
                 /\ arrays' = Append(arrays, [values |-> d.values,
                                               validity |-> d.validity])
                 /\ outcome' = "returned"
                 /\ phase' = "decoded"
    /\ UNCHANGED <<binding, columns, options, input,
                   row_starts, offsets, entry_offsets, buffer,
                   nwrites, encoded, junk, lens, scan, mapping, inserts, cats,
                   threads>>

NextRaw == LenFromBuffer \/ DecodeRaw

\* Two row slices of any bytes, handed to the decoder of a string column.
InitRaw ==
    /\ columns = <<>>
    /\ options \in [1..1 -> AllOptions]
    /\ input = <<>>
    /\ py_opts = <<>>
    /\ call = None
    /\ phase = "raw"
    /\ rows \in [1..2 -> RawSlices]
    /\ junk \in RawBytes
    /\ row_starts = <<>>
    /\ offsets = <<>>
    /\ entry_offsets = <<>>
    /\ buffer = <<>>
    /\ nwrites = <<>>
    /\ encoded = 0
    /\ entry_rows = <<>>
    /\ arrays = <<>>
    /\ oob = FALSE
    /\ outcome = "running"
    /\ lens = <<>>
    /\ scan = [pc |-> "idle"]
    /\ mapping = <<>>
    /\ inserts = <<>>
    /\ cats = <<>>
    /\ threads = <<>>
SpecRaw == InitRaw /\ [][NextRaw]_vars

\* ------------------------------------------- len_from_buffer on the rows

\* len_from_buffer on every row slice, for the column decode_str is called
\* for next; lens gains the lengths of that column.  Where an unchecked
\* access breaks its contract the behaviour is undefined, as in
\* LenFromBuffer.
MeasureRows ==
    /\ phase = "decode"
    /\ outcome # "aborted"
    /\ Len(arrays) < NCols
    /\ Len(lens) = Len(arrays)
    /\ LET opt == options[Len(arrays) + 1]
           r == [i \in 1..Len(rows) |-> len_from_buffer(rows[i], opt)]
           ub == \E i \in 1..Len(rows) : r[i].ub
       IN  /\ oob' = (oob \/ ub)
           /\ outcome' \in (IF ub THEN {"aborted", "returned"} ELSE {"returned"})
           /\ \E g \in [{i \in 1..Len(rows) : IsNone(r[i].len)} -> UBLens] :
                  lens' = Append(lens, [i \in 1..Len(rows) |->
                                           IF IsNone(r[i].len) THEN g[i]
                                           ELSE Unwrap(r[i].len)])
    /\ UNCHANGED <<binding, columns, options, input,
                   phase, row_starts, offsets, entry_offsets,
                   buffer, nwrites, encoded, rows, entry_rows, arrays, junk, scan,
                   mapping, inserts, cats, threads>>

NextLen == RowLengths \/ EncodeStr \/ SplitRows \/ MeasureRows \/ DecodeStr

\* Two rows over NumCols string columns, measured and decoded.
InitLen == InitStrings(NumCols, 2, AsmValues)
SpecLen == InitLen /\ [][NextLen]_vars

\* ------------------------------------------------ decode_str, step by step

\* The locals of a decode_str call in progress: where it stands on the
\* current row (the states of the per-row machine, then "RETURN"), the row,
\* scratch, array, validity, and how often it came to each row.
Scanning(pc, i, scratch, array, validity, visits) ==
    [pc |-> pc, i |-> i, scratch |-> scratch, array |-> array,
     validity |-> validity, visits |-> visits]

\* The options of the call in progress and the slice of its current row.
ScanOpt == options[Len(arrays) + 1]
ScanRow == rows[scan.i]

\* decode_str is entered for the next column (lines 75-82).
ScanCall ==
    /\ phase = "decode"
    /\ scan.pc = "idle"
    /\ Len(arrays) < NCols
    /\ scan' = Scanning(IF Len(rows) >= 1 THEN "START" ELSE "RETURN", 1, <<>>,
                        <<>>, None, [j \in 1..Len(rows) |-> 0])
    /\ entry_rows' = rows
    /\ UNCHANGED <<binding, columns, options, input,
                   phase, row_starts, offsets, entry_offsets,
                   buffer, nwrites, encoded, rows, arrays, oob, junk, outcome,
                   lens, mapping, inserts, cats, threads>>

\* let sentinel = *row.get_unchecked(0); the second loop pushes
\* sentinel != null_sentinel to validity; scratch.clear() on a value.
ScanStart ==
    /\ scan.pc = "START"
    /\ LET null == first_is_null(ScanRow, ScanOpt) IN
       scan' = [scan EXCEPT
                   !.pc = IF null THEN "EMIT_NULL" ELSE "SCAN",
                   !.scratch = IF null THEN @ ELSE <<>>,
                   !.validity = IF IsNone(@) THEN @
                                ELSE Some(Append(Unwrap(@), ~null)),
                   !.visits[scan.i] = @ + 1]
    /\ oob' = (oob \/ Len(ScanRow) = 0)
    /\ UNCHANGED <<binding, columns, options, input,
                   phase, row_starts, offsets, entry_offsets,
                   buffer, nwrites, encoded, rows, entry_rows, arrays, junk,
                   outcome, lens, mapping, inserts, cats, threads>>

\* *row = row.get_unchecked(1..); in the first loop break, make the bitmap
\* and push the placeholder (lines 104-107); in the second push "".
ScanEmitNull ==
    /\ scan.pc = "EMIT_NULL"
    /\ rows' = [rows EXCEPT ![scan.i] = skip_null(@)]
    /\ oob' = (oob \/ slice_oob(ScanRow, 1))
    /\ scan' = IF IsNone(scan.validity)
               THEN LET d == promote(Dec(rows, scan.array, None, oob)) IN
                    [scan EXCEPT !.pc = "DONE", !.array = d.values,
                                 !.validity = d.validity]
               ELSE [scan EXCEPT !.pc = "DONE", !.array = Append(@, <<>>)]
    /\ UNCHANGED <<binding, columns, options, input,
                   phase, row_starts, offsets, entry_offsets,
                   buffer, nwrites, encoded, entry_rows, arrays, junk, outcome,
                   lens, mapping, inserts, cats, threads>>

\* One step of row.iter().take_while(|&b| *b != term).map(..): the iterator
\* ends at the end of the slice or at the terminator, another byte is
\* decoded into scratch.
ScanByte ==
    /\ scan.pc = "SCAN"
    /\ LET descending == contains(ScanOpt, DESCENDING)
           k == Len(scan.scratch) + 1
       IN  scan' = IF k > Len(ScanRow) \/ ScanRow[k] = decode_terminator(descending)
                   THEN [scan EXCEPT !.pc = "EMIT_VALUE"]
                   ELSE [scan EXCEPT !.scratch =
                                         Append(@, decode_byte(descending, ScanRow[k]))]
    /\ UNCHANGED <<binding, columns, options, input,
                   phase, row_starts, offsets, entry_offsets,
                   buffer, nwrites, encoded, rows, entry_rows, arrays, oob, junk,
                   outcome, lens, mapping, inserts, cats, threads>>

\* *row = row.get_unchecked(1 + scratch.len()..); array.push(scratch)
ScanEmitValue ==
    /\ scan.pc = "EMIT_VALUE"
    /\ rows' = [rows EXCEPT ![scan.i] = skip_value(@, scan.scratch)]
    /\ oob' = (oob \/ slice_oob(ScanRow, 1 + Len(scan.scratch)))
    /\ scan' = [scan EXCEPT !.pc = "DONE", !.array = Append(@, scan.scratch)]
    /\ UNCHANGED <<binding, columns, options, input,
                   phase, row_starts, offsets, entry_offsets,
                   buffer, nwrites, encoded, entry_rows, arrays, junk, outcome,
                   lens, mapping, inserts, cats, threads>>

\* The loop head: the next row, or the end of the rows.
ScanDone ==
    /\ scan.pc = "DONE"
    /\ scan' = IF scan.i < Len(rows)
               THEN [scan EXCEPT !.pc = "START", !.i = @ + 1]
               ELSE [scan EXCEPT !.pc = "RETURN"]
    /\ UNCHANGED <<binding, columns, options, input,
                   phase, row_starts, offsets, entry_offsets,
                   buffer, nwrites, encoded, rows, entry_rows, arrays, oob, junk,
                   outcome, lens, mapping, inserts, cats, threads>>

\* return array.into() / out.with_validity(validity.into_opt_validity())
ScanReturn ==
    /\ scan.pc = "RETURN"
    /\ arrays' = Append(arrays, [values |-> scan.array, validity |-> scan.validity])
    /\ scan' = [scan EXCEPT !.pc = "idle"]
    /\ UNCHANGED <<binding, columns, options, input,
                   phase, row_starts, offsets, entry_offsets,
                   buffer, nwrites, encoded, rows, entry_rows, oob, junk, outcome,
                   lens, mapping, inserts, cats, threads>>

NextScan ==
    \/ RowLengths \/ EncodeStr \/ SplitRows
    \/ ScanCall \/ ScanStart \/ ScanEmitNull \/ ScanByte \/ ScanEmitValue
    \/ ScanDone \/ ScanReturn

\* Two rows over NumCols string columns encoded with one set of options; a
\* call runs to completion on the calling thread.
InitScan ==
    /\ InitStrings(NumCols, 2, AsmValues)
    /\ \A c \in 1..NumCols : options[c] = options[1]
SpecScan == InitScan /\ [][NextScan]_vars

\* ------------------------------------------------- what the claims speak of

\* The column the last encode_str call encoded, its options, its items, and
\* the cells the call's cursor of row i passed over.
Opt == options[encoded]
Item(i) == columns[encoded][i]
Bytes(i) == SubSeq(buffer, entry_offsets[i] + 1, offsets[i])
FirstByte(i) == buffer[entry_offsets[i] + 1]

\* The wire format as the specification's table gives it.
WireAsc(s) == [k \in 1..(Len(s) + 1) |-> IF k <= Len(s) THEN s[k] + 2 ELSE 1]
Inverted(bytes) == [k \in 1..Len(bytes) |-> 255 - bytes[k]]
WireSentinel(opt) == IF NULLS_LAST \in opt THEN 255 ELSE 0
WireTerminator(opt) == IF DESCENDING \in opt THEN 254 ELSE 1
Wire(v, opt) ==
    IF IsNone(v) THEN <<WireSentinel(opt)>>
    ELSE IF DESCENDING \in opt THEN Inverted(WireAsc(Unwrap(v)))
    ELSE WireAsc(Unwrap(v))

\* --------------------------------------------------------------------- C1

\* C1 (round trip): decode_str with the column's options on the rows that
\* encode_str produced returns a column of the same length, whose row i is
\* null exactly when input row i was null and otherwise holds the bytes of
\* input row i.
RoundTrip ==
    \A c \in 1..Len(arrays) :
        LET a == arrays[c] IN
        /\ Len(a.values) = NRows
        /\ IsSome(a.validity) => Len(Unwrap(a.validity)) = NRows
        /\ \A i \in 1..NRows :
            /\ IsNone(columns[c][i]) <=>
                   (IsSome(a.validity) /\ ~Unwrap(a.validity)[i])
            /\ IsSome(columns[c][i]) => a.values[i] = Unwrap(columns[c][i])

\* A null between the empty string and a four-byte character, decoded under
\* DESCENDING and NULLS_LAST.
RoundTripWitness ==
    /\ Len(arrays) = 1
    /\ columns[1] = <<Some(<<>>), None, Some(CharMax)>>
    /\ options[1] = {DESCENDING, NULLS_LAST}
    /\ arrays[1].values = <<<<>>, <<>>, CharMax>>
    /\ arrays[1].validity = Some(<<TRUE, FALSE, TRUE>>)

\* --------------------------------------------------------------------- C3

\* C3 (wire format): a non-null string of bytes b0..b(n-1) is written as the
\* n + 1 bytes b0+2, ..., b(n-1)+2, 0x01 under ascending order and as the
\* same bytes each XORed with 0xFF under DESCENDING; the empty string is
\* [0x01] or [0xFE], never the null encodings [0x00] and [0xFF].
WireFormat ==
    encoded >= 1 =>
        \A i \in 1..NRows :
            IsSome(Item(i)) =>
                LET s == Unwrap(Item(i)) IN
                /\ offsets[i] = entry_offsets[i] + Len(s) + 1
                /\ Bytes(i) = IF DESCENDING \in Opt THEN Inverted(WireAsc(s))
                                                    ELSE WireAsc(s)
                /\ s = <<>> =>
                       Bytes(i) = IF DESCENDING \in Opt THEN <<254>> ELSE <<1>>
                /\ Bytes(i) \notin {<<0>>, <<255>>}

\* U+10FFFF (F4 8F BF BF) and the empty string, written under DESCENDING.
WireFormatWitness ==
    /\ encoded = 1
    /\ DESCENDING \in Opt
    /\ \E i, j \in 1..NRows :
        /\ Item(i) = Some(CharMax)
        /\ Bytes(i) = <<9, 110, 62, 62, 254>>
        /\ Item(j) = Some(<<>>)
        /\ Bytes(j) = <<254>>

\* --------------------------------------------------------------------- C4

\* C4 (length oracle exactness): encode_str advances offsets[i] by
\* len_from_item of the item: by 1 for a null and by len + 1 for a string.
LengthOracleExact ==
    encoded >= 1 =>
        \A i \in 1..Min(Len(offsets), Len(columns[encoded])) :
            /\ offsets[i] =
                   entry_offsets[i] + len_from_item(str_len(Item(i)), Opt)
            /\ offsets[i] - entry_offsets[i] =
                   IF IsNone(Item(i)) THEN 1 ELSE Len(Unwrap(Item(i))) + 1

\* The second column of a row: the cursor starts past the first column, and
\* moves by 1 for a null and by 4 for a three-byte string.
LengthOracleWitness ==
    /\ encoded = 2
    /\ Item(1) = None
    /\ Item(2) = Some(CharA \o CharU80)
    /\ entry_offsets[1] > row_starts[1]
    /\ offsets[1] = entry_offsets[1] + 1
    /\ offsets[2] = entry_offsets[2] + 4

\* --------------------------------------------------------------------- C2

\* Comparison results: -1 (less), 0 (equal), 1 (greater).
Reverse(c) == 0 - c

\* Lexicographic comparison of two byte sequences; a proper prefix is less.
RECURSIVE bytes_cmp_from(_, _, _)
bytes_cmp_from(a, b, k) ==
    IF k > Len(a) /\ k > Len(b) THEN 0
    ELSE IF k > Len(a) THEN -1
    ELSE IF k > Len(b) THEN 1
    ELSE IF a[k] < b[k] THEN -1
    ELSE IF a[k] > b[k] THEN 1
    ELSE bytes_cmp_from(a, b, k + 1)

bytes_cmp(a, b) == bytes_cmp_from(a, b, 1)

\* Comparison of two items under a column's options: nulls before all
\* strings, or after them under NULLS_LAST; strings by their bytes, reversed
\* under DESCENDING.
value_cmp(a, b, opt) ==
    IF IsNone(a) /\ IsNone(b) THEN 0
    ELSE IF IsNone(a) THEN (IF NULLS_LAST \in opt THEN 1 ELSE -1)
    ELSE IF IsNone(b) THEN (IF NULLS_LAST \in opt THEN -1 ELSE 1)
    ELSE IF DESCENDING \in opt THEN Reverse(bytes_cmp(Unwrap(a), Unwrap(b)))
    ELSE bytes_cmp(Unwrap(a), Unwrap(b))

\* Comparison of two rows: the first column that differs decides.
RECURSIVE tuple_cmp_from(_, _, _, _)
tuple_cmp_from(x, y, opts, c) ==
    IF c > Len(x) THEN 0
    ELSE IF value_cmp(x[c], y[c], opts[c]) # 0 THEN value_cmp(x[c], y[c], opts[c])
    ELSE tuple_cmp_from(x, y, opts, c + 1)

tuple_cmp(x, y, opts) == tuple_cmp_from(x, y, opts, 1)

\* The bytes of a row y alone: its length summed, its columns encoded in
\* order on one cursor.
RECURSIVE encode_columns(_, _, _, _, _)
encode_columns(mem, offs, cols, opts, c) ==
    IF c > Len(cols) THEN mem.buffer
    ELSE LET r == encode_str(mem, cols[c], opts[c], offs)
         IN  encode_columns(r.mem, r.offsets, cols, opts, c + 1)

row_bytes(y, opts) ==
    LET cols == [c \in 1..Len(y) |-> <<y[c]>>]
        size == row_offsets(cols, opts, 1)[2]
    IN  encode_columns(Mem([p \in 1..size |-> Uninit], [p \in 1..size |-> 0], FALSE),
                       <<0>>, cols, opts, 1)

\* The row held in the buffer, every row it can be compared with, and the
\* bytes of each of these under each choice of per-column options.
RowX == [c \in 1..NCols |-> columns[c][1]]
RowTuples == [1..NumCols -> OrderValues]
RowOptions == [1..NumCols -> AllOptions]
EncodedRow == [y \in RowTuples, o \in RowOptions |-> row_bytes(y, o)]

\* C2 (order preservation): for rows x and y over the same string columns
\* and per-column options, the lexicographic comparison of the encoded rows
\* equals the comparison of the rows' values under the options.
OrderPreserved ==
    (phase = "encode" /\ encoded = NCols) =>
        \A y \in RowTuples :
            bytes_cmp(buffer, EncodedRow[y, options]) = tuple_cmp(RowX, y, options)

\* "a" in a descending first column against the longer "a\u{80}": the
\* prefix is the greater row, whatever the later columns hold.
ExtendedY == [c \in 1..NumCols |-> IF c = 1 THEN Some(CharA \o CharU80) ELSE None]
OrderPreservedWitness ==
    /\ phase = "encode"
    /\ encoded = NCols
    /\ columns[1][1] = Some(CharA)
    /\ columns[NCols][1] = Some(<<>>)
    /\ options[1] = {DESCENDING}
    /\ options[NCols] = {NULLS_LAST}
    /\ bytes_cmp(buffer, EncodedRow[ExtendedY, options]) = 1
    /\ tuple_cmp(RowX, ExtendedY, options) = 1

\* --------------------------------------------------------------------- C5

\* The options with DESCENDING toggled.
Toggled(opt) ==
    IF DESCENDING \in opt THEN opt \ {DESCENDING} ELSE opt \cup {DESCENDING}

\* The encoding of one item alone under the given options.
item_bytes(v, opt) == row_bytes(<<v>>, <<opt>>)

\* C5 as stated (duality): the encoding of a string under DESCENDING is the
\* bitwise NOT of its encoding under ascending, and a null is encoded under
\* DESCENDING with the other sentinel of the pair {0x00, 0xFF}.
DualityAsStated ==
    encoded >= 1 =>
        \A i \in 1..NRows :
            item_bytes(Item(i), Toggled(Opt)) = Inverted(Bytes(i))

\* C5 (amended): the encoding of a string under DESCENDING is the bitwise
\* NOT of its encoding under ascending; a null is encoded with the same
\* sentinel under both.
Duality ==
    encoded >= 1 =>
        \A i \in 1..NRows :
            item_bytes(Item(i), Toggled(Opt)) =
                IF IsNone(Item(i)) THEN Bytes(i) ELSE Inverted(Bytes(i))

\* A column with a null and a string, encoded one way and the other.
DualityWitness ==
    /\ encoded = 1
    /\ Item(1) = None
    /\ Item(2) = Some(CharNul)
    /\ Opt = {NULLS_LAST}
    /\ Bytes(1) = <<255>>
    /\ item_bytes(None, {DESCENDING, NULLS_LAST}) = <<255>>
    /\ Bytes(2) = <<2, 1>>
    /\ item_bytes(Some(CharNul), {DESCENDING, NULLS_LAST}) = <<253, 254>>

\* --------------------------------------------------------------------- C6

\* C6 (null encoding): a null is written as exactly one byte, 0xFF when
\* NULLS_LAST is set and 0x00 otherwise, whether or not DESCENDING is set.
NullEncoding ==
    encoded >= 1 =>
        \A i \in 1..NRows :
            IsNone(Item(i)) =>
                /\ offsets[i] = entry_offsets[i] + 1
                /\ Bytes(i) = <<IF NULLS_LAST \in Opt THEN 255 ELSE 0>>

\* A null written under DESCENDING without NULLS_LAST: still 0x00.
NullEncodingWitness ==
    /\ encoded = 1
    /\ Opt = {DESCENDING}
    /\ \E i \in 1..NRows : Item(i) = None /\ Bytes(i) = <<0>>

\* --------------------------------------------------------------------- C7

\* C7 (no forbidden bytes in the payload): no byte of a string's encoding
\* but the last equals the terminator of the mode or the null sentinel of
\* the options; the last byte is the terminator.
NoForbiddenBytes ==
    encoded >= 1 =>
        \A i \in 1..NRows :
            IsSome(Item(i)) =>
                LET b == Bytes(i) IN
                /\ Len(b) = Len(Unwrap(Item(i))) + 1
                /\ b[Len(b)] = WireTerminator(Opt)
                /\ \A k \in 1..(Len(b) - 1) :
                       /\ b[k] # WireTerminator(Opt)
                       /\ b[k] # WireSentinel(Opt)

\* The two bytes nearest the reserved ones: 0x00 is written as 0x02
\* ascending, next to the terminator 0x01.
NoForbiddenBytesWitness ==
    /\ encoded = 1
    /\ Opt = {}
    /\ \E i, j \in 1..NRows :
        /\ Item(i) = Some(CharNul)
        /\ Bytes(i) = <<2, 1>>
        /\ Item(j) = Some(CharMax)
        /\ Bytes(j) = <<246, 145, 193, 193, 1>>

\* --------------------------------------------------------------------- C8

\* C8 (first byte of a value): the first byte of the encoding of a string,
\* empty or not, is neither 0x00 nor 0xFF, and decode_str, which tests the
\* first byte against the null sentinel, reports no string as a null.
FirstByteNotSentinel ==
    /\ encoded >= 1 =>
           \A i \in 1..NRows :
               IsSome(Item(i)) => FirstByte(i) \notin {0, 255}
    /\ \A c \in 1..Len(arrays) :
           \A i \in 1..NRows :
               IsSome(columns[c][i]) =>
                   \/ IsNone(arrays[c].validity)
                   \/ Unwrap(arrays[c].validity)[i]

\* The first bytes nearest 0xFF: the empty string (0xFE) and U+0000 (0xFD)
\* under DESCENDING, decoded next to a null whose sentinel is 0xFF.
FirstByteNotSentinelWitness ==
    /\ Len(arrays) = 1
    /\ options[1] = {DESCENDING, NULLS_LAST}
    /\ columns[1] = <<None, Some(<<>>), Some(CharNul)>>
    /\ FirstByte(2) = 254
    /\ FirstByte(3) = 253
    /\ arrays[1].validity = Some(<<FALSE, TRUE, TRUE>>)

\* --------------------------------------------------------------------- C9

\* C9 as stated: under nulls-first the first byte of the encoding of every
\* string is >= 0x02, and under NULLS_LAST it is less than the sentinel 0xFF.
FirstByteBoundsAsStated ==
    encoded >= 1 =>
        \A i \in 1..NRows :
            IsSome(Item(i)) =>
                IF NULLS_LAST \in Opt THEN FirstByte(i) < 255
                ELSE FirstByte(i) >= 2

\* C9 (amended): under nulls-first the first byte of the encoding of every
\* string is >= 0x01, above the sentinel 0x00, and it is >= 0x02 unless the
\* string is empty and the order ascending (the encoding is then the lone
\* terminator 0x01); under NULLS_LAST it is less than the sentinel 0xFF.
FirstByteBounds ==
    encoded >= 1 =>
        \A i \in 1..NRows :
            IsSome(Item(i)) =>
                IF NULLS_LAST \in Opt THEN FirstByte(i) < 255
                ELSE /\ FirstByte(i) >= 1
                     /\ FirstByte(i) = 1 <=>
                            (Item(i) = Some(<<>>) /\ DESCENDING \notin Opt)

\* The empty string under ascending nulls-first beside a null and U+0000:
\* the first bytes are 0x00 < 0x01 < 0x02.
FirstByteBoundsWitness ==
    /\ encoded = 1
    /\ Opt = {}
    /\ columns[1] = <<None, Some(<<>>), Some(CharNul)>>
    /\ FirstByte(1) = 0
    /\ FirstByte(2) = 1
    /\ FirstByte(3) = 2

\* -------------------------------------------------------------------- C10

\* The concatenation of the wire encodings of row i's items, column c on.
RECURSIVE RowWire(_, _)
RowWire(i, c) ==
    IF c > NCols THEN <<>>
    ELSE Wire(columns[c][i], options[c]) \o RowWire(i, c + 1)

\* The cells of row i: from its start to the start of the next row.
RowCells(i) == SubSeq(buffer, row_starts[i] + 1, row_starts[i + 1])

\* C10 (row assembly): with the lengths summed by len_from_item and
\* encode_str called once per column on the cursors, no cell is ever written
\* twice, the cells written so far are the ones each row's cursor has
\* passed, and after the last column every cell of [0, offsets[R]) has been
\* written exactly once, row i holds the concatenation of its columns'
\* encodings without padding, and the cursor of row i is at the start of
\* row i + 1.
RowAssembly ==
    phase # "input" =>
        /\ ~oob
        /\ Len(buffer) = row_starts[NRows + 1]
        /\ \A p \in 1..Len(buffer) :
               nwrites[p] = IF \E i \in 1..NRows :
                                   row_starts[i] < p /\ p <= offsets[i]
                            THEN 1 ELSE 0
        /\ encoded = NCols =>
               /\ \A p \in 1..Len(buffer) : nwrites[p] = 1 /\ buffer[p] # Uninit
               /\ \A i \in 1..NRows :
                      /\ RowCells(i) = RowWire(i, 1)
                      /\ offsets[i] = row_starts[i + 1]

\* A null in the first column of the first row, which the second column's
\* bytes follow at once, and an empty string closing the second row.
RowAssemblyWitness ==
    /\ phase = "encode"
    /\ encoded = NCols
    /\ NCols >= 2
    /\ columns[1] = <<None, Some(CharA \o CharU80)>>
    /\ columns[NCols] = <<Some(CharA \o CharU80), Some(<<>>)>>
    /\ options[1] = {DESCENDING}
    /\ options[NCols] = {NULLS_LAST}
    /\ buffer = <<0, 99, 196, 130, 1, 156, 59, 125, 254, 1>>
    /\ offsets = <<5, 10>>

\* -------------------------------------------------------------------- C11

\* The column the last decode_str call decoded.
DecCol == Len(arrays)

\* C11 (row disassembly): on the rows encode_str assembled, decode_str called
\* once per column in column order with the column's options takes from
\* every row slice exactly that column's segment (the slice on entry is the
\* column's encoding followed by the slice on return, which holds the
\* encodings of the columns still to come), no access leaves a slice, and
\* after the last column every slice is empty.
RowDisassembly ==
    phase = "decode" =>
        /\ ~oob
        /\ \A i \in 1..NRows : rows[i] = RowWire(i, DecCol + 1)
        /\ DecCol >= 1 =>
               \A i \in 1..NRows :
                   entry_rows[i] = Wire(columns[DecCol][i], options[DecCol]) \o rows[i]
        /\ DecCol = NCols => \A i \in 1..NRows : rows[i] = <<>>

\* The last column decoded: the first row held a null and then a string,
\* the second a string and then an empty string; the last call took the
\* string from the first and the terminator from the second.
RowDisassemblyWitness ==
    /\ phase = "decode"
    /\ NCols >= 2
    /\ DecCol = NCols
    /\ columns[1] = <<None, Some(CharA \o CharU80)>>
    /\ columns[NCols] = <<Some(CharA \o CharU80), Some(<<>>)>>
    /\ options[1] = {DESCENDING}
    /\ options[NCols] = {NULLS_LAST}
    /\ entry_rows[1] = <<99, 196, 130, 1>>
    /\ entry_rows[2] = <<1>>
    /\ rows = <<<<>>, <<>>>>

\* -------------------------------------------------------------------- C17

\* The options of the last decode_str call, and what row i held for it.
DecOpt == options[DecCol]
DecItem(i) == columns[DecCol][i]

\* The number of bytes the last decode_str call took from row i.
Consumed(i) == Len(entry_rows[i]) - Len(rows[i])

\* C17 (decoder cursor advancement): decode_str advances a row's slice by
\* exactly 1 byte when the row's first byte is the null sentinel and by
\* exactly 1 + payload_len bytes otherwise, for the rows before the first
\* null and for the rows after it alike, and what it leaves is the
\* untouched rest of the slice.
DecoderAdvance ==
    (phase = "decode" /\ DecCol >= 1) =>
        \A i \in 1..NRows :
            LET row == entry_rows[i] IN
            /\ Len(row) >= 1
            /\ (row[1] = null_sentinel(DecOpt)) <=> IsNone(DecItem(i))
            /\ Consumed(i) = IF row[1] = null_sentinel(DecOpt) THEN 1
                              ELSE 1 + Len(Unwrap(DecItem(i)))
            /\ rows[i] = SubSeq(row, Consumed(i) + 1, Len(row))

\* The first column decoded of two: the first row's null takes one byte in
\* the first loop, the second row's three-byte string takes four in the
\* second loop, and the second column's bytes stay behind.
DecoderAdvanceWitness ==
    /\ phase = "decode"
    /\ NCols >= 2
    /\ DecCol = 1
    /\ columns[1] = <<None, Some(CharA \o CharU80)>>
    /\ columns[2] = <<Some(<<>>), None>>
    /\ options[1] = {DESCENDING}
    /\ options[2] = {NULLS_LAST}
    /\ entry_rows[1] = <<0>> \o rows[1]
    /\ entry_rows[2] = <<156, 59, 125, 254>> \o rows[2]
    /\ Consumed(1) = 1
    /\ Consumed(2) = 4
    /\ \A i \in 1..NRows : Len(rows[i]) >= 1

\* -------------------------------------------------------------------- C18

\* The array the last decode_str call returned.
DecArray == arrays[DecCol]

\* The rows of the last decoded column that are null, and the first of them.
NullRows == {i \in 1..NRows : IsNone(DecItem(i))}
FirstNull == CHOOSE k \in NullRows : \A j \in NullRows : k <= j

\* C18 (one-time bitmap promotion): decode_str returns an array without a
\* validity bitmap exactly when no row is null; otherwise the bitmap has
\* length num_rows, is true for every row before the first null row k, false
\* at k, and for every later row true exactly when the row is non-null;
\* every null row holds the empty placeholder, wherever the first null is.
BitmapPromotion ==
    (phase = "decode" /\ DecCol >= 1) =>
        /\ Len(DecArray.values) = NRows
        /\ IsNone(DecArray.validity) <=> NullRows = {}
        /\ NullRows # {} =>
               LET validity == Unwrap(DecArray.validity) IN
               /\ Len(validity) = NRows
               /\ \A i \in 1..NRows :
                      /\ i < FirstNull => validity[i]
                      /\ i = FirstNull => ~validity[i]
                      /\ i > FirstNull => (validity[i] <=> ~IsNone(DecItem(i)))
        /\ \A i \in NullRows : DecArray.values[i] = <<>>

\* The first null in the middle row, after a string and before an empty
\* string: the bitmap is made at row 2 with one true bit for row 1.
BitmapPromotionWitness ==
    /\ phase = "decode"
    /\ DecCol = 1
    /\ columns[1] = <<Some(CharMax), None, Some(<<>>)>>
    /\ FirstNull = 2
    /\ DecArray.validity = Some(<<TRUE, FALSE, TRUE>>)
    /\ DecArray.values = <<CharMax, <<>>, <<>>>>

\* -------------------------------------------------------------------- C19

\* The item the row the step-wise decoder is at encodes, and the call's
\* result as decode_str computes it in one piece.
ScanItem == columns[Len(arrays) + 1][scan.i]
ScanWhole == decode_str(entry_rows, DecOpt)

\* What holds at every step of a decode_str call on well-formed rows.
ScanSteps ==
    (phase = "decode" /\ scan.pc # "idle") =>
        /\ ~oob
        /\ scan.pc = "EMIT_NULL" =>
               IsNone(ScanItem) /\ ScanRow[1] = null_sentinel(ScanOpt)
        /\ scan.pc \in {"SCAN", "EMIT_VALUE"} =>
               /\ ~IsNone(ScanItem)
               /\ ScanRow[1] # null_sentinel(ScanOpt)
               /\ Len(scan.scratch) <= Len(Unwrap(ScanItem))
               /\ scan.scratch = SubSeq(Unwrap(ScanItem), 1, Len(scan.scratch))
               /\ ScanRow = Wire(ScanItem, ScanOpt) \o RowWire(scan.i, Len(arrays) + 2)
        /\ scan.pc = "EMIT_VALUE" =>
               /\ Len(scan.scratch) = Len(Unwrap(ScanItem))
               /\ Len(scan.scratch) + 1 <= Len(ScanRow)
               /\ ScanRow[Len(scan.scratch) + 1] = WireTerminator(ScanOpt)
        /\ \A j \in 1..NRows :
               scan.visits[j] = IF j < scan.i \/ (j = scan.i /\ scan.pc # "START")
                                THEN 1 ELSE 0

\* What a finished call leaves: every row visited once, and the slices and
\* the array of decode_str.
ScanReturned ==
    (phase = "decode" /\ scan.pc = "idle" /\ DecCol >= 1) =>
        /\ \A j \in 1..NRows : scan.visits[j] = 1
        /\ rows = ScanWhole.rows
        /\ DecArray = [values |-> ScanWhole.values, validity |-> ScanWhole.validity]

ScanFinished == phase = "decode" /\ scan.pc = "idle" /\ DecCol = NCols

\* The steps the decoder has left at most: per row the bytes still to scan
\* and the states still to pass, per call the rows still to visit, and per
\* column the calls still to make.
RowSteps ==
    CASE scan.pc = "START" -> Len(ScanRow) + 4
      [] scan.pc = "SCAN" -> Len(ScanRow) - Len(scan.scratch) + 3
      [] scan.pc \in {"EMIT_NULL", "EMIT_VALUE"} -> 2
      [] scan.pc = "DONE" -> 1
      [] OTHER -> 0
MostRowSteps == Len(buffer) + 5
MostCallSteps == NRows * MostRowSteps + 1
CallSteps ==
    CASE scan.pc = "idle" -> MostCallSteps
      [] scan.pc = "RETURN" -> 0
      [] OTHER -> (NRows - scan.i) * MostRowSteps + RowSteps
StepsLeft == (NCols - Len(arrays)) * (MostCallSteps + 1) + CallSteps

\* C19 (the per-row decoder state machine): on well-formed rows every row
\* the decoder starts on reaches DONE; it goes from START to EMIT_NULL when
\* the first byte is the null sentinel and otherwise scans up to the first
\* terminator byte, which is the value's own even when bytes of later
\* columns follow, having accumulated exactly the payload; and every call
\* of decode_str ends, having visited every row exactly once: until the
\* last call has returned a step is always possible, and every step
\* lowers the number of steps left, which is never negative.
DecoderTerminates ==
    /\ [](ScanSteps /\ ScanReturned)
    /\ [](phase = "decode" => (ScanFinished \/ ENABLED NextScan) /\ StepsLeft >= 0)
    /\ [][phase = "decode" => StepsLeft' < StepsLeft]_vars

\* The scan of the first column's three-byte descending string has stopped
\* at its terminator, with the bytes of the second column behind it.
DecoderTerminatesWitness ==
    /\ phase = "decode"
    /\ NCols >= 2
    /\ Len(arrays) = 0
    /\ scan.pc = "EMIT_VALUE"
    /\ scan.i = 2
    /\ DESCENDING \in options[1]
    /\ columns[1][1] = None
    /\ columns[2][2] = Some(CharA \o CharU80)
    /\ scan.scratch = CharA \o CharU80
    /\ ScanRow[4] = 254
    /\ Len(ScanRow) = 8
    /\ scan.visits = <<1, 1>>

\* -------------------------------------------------------------------- C12

\* The call of decode_str_as_cat that ended last: its column, its options,
\* its items, and what decode_str makes of the rows it was given.
CatCol == IF outcome = "panicked" THEN Len(cats) + 1 ELSE Len(cats)
CatOpt == options[CatCol]
CatItem(i) == columns[CatCol][i]
CatWhole == decode_str(entry_rows, CatOpt)

\* Row i of the array decode_str returns is null.
IsNullAt(validity, i) == IsSome(validity) /\ ~Unwrap(validity)[i]

\* The strings of the column that are no nulls, in row order.
RECURSIVE NonNulls(_, _)
NonNulls(col, i) ==
    IF i > Len(col) THEN <<>>
    ELSE (IF IsNone(col[i]) THEN <<>> ELSE <<Unwrap(col[i])>>) \o NonNulls(col, i + 1)

\* Some string of the column found the dictionary without a code left.
OutOfCodes ==
    Len(mapping) = CatSpace /\ \E i \in 1..NRows :
        ~IsNone(CatItem(i)) /\ ~has_cat(mapping, Unwrap(CatItem(i)))

\* C12 (categorical decoding is decode_str followed by interning): on
\* well-formed rows whose strings the dictionary takes, decode_str_as_cat
\* returns, having advanced every row slice as decode_str does; its array
\* has the length and the validity of decode_str's (no bitmap without a
\* null), holds at each non-null row the code the dictionary gave the
\* string decode_str produces there, and a zero code at each null row.
CatRefinesStr ==
    (phase = "decode" /\ outcome # "running") =>
        /\ ~oob
        /\ outcome = "returned" <=> ~OutOfCodes
        /\ outcome = "returned" =>
               LET a == cats[CatCol] IN
               /\ rows = CatWhole.rows
               /\ Len(a.values) = Len(CatWhole.values)
               /\ a.validity = CatWhole.validity
               /\ IsNone(a.validity) <=> \A i \in 1..NRows : ~IsNone(CatItem(i))
               /\ \A i \in 1..NRows :
                      IF IsNullAt(CatWhole.validity, i)
                      THEN a.values[i] = 0
                      ELSE /\ has_cat(mapping, CatWhole.values[i])
                           /\ a.values[i] = cat_of(mapping, CatWhole.values[i])

\* A dictionary that held "a" gained U+0080 at code 1: the column of
\* U+0080, "a", null, decoded descending, is the codes 1, 0 and the zero
\* code under the bitmap true, true, false.
CatRefinesStrWitness ==
    /\ phase = "decode"
    /\ outcome = "returned"
    /\ columns[1] = <<Some(CharU80), Some(CharA), None>>
    /\ DESCENDING \in options[1]
    /\ mapping = <<CharA, CharU80>>
    /\ cats[1] = [values |-> <<1, 0, 0>>, validity |-> Some(<<TRUE, TRUE, FALSE>>)]
    /\ rows = <<<<>>, <<>>, <<>>>>

\* -------------------------------------------------------------------- C13

\* The last string insert_cat was called with got no code.
InsertFailed ==
    /\ inserts # <<>>
    /\ ~has_cat(mapping, inserts[Len(inserts)])

\* C13 (as stated): when the dictionary's insert fails for a decoded string,
\* decode_str_as_cat hands the dictionary's error to its caller and does
\* not panic.
InsertFailurePropagated ==
    (phase = "decode" /\ outcome # "running" /\ InsertFailed) => outcome = "error"

\* A dictionary holding "a" and U+0080 has no code left for the empty
\* string of the third row: the unwrap() in the second loop panics, after
\* the null of the first row and "a" of the second.
InsertFailureWitness ==
    /\ phase = "decode"
    /\ columns[1] = <<None, Some(CharA), Some(<<>>)>>
    /\ mapping = <<CharA, CharU80>>
    /\ inserts = <<CharA, <<>>>>
    /\ InsertFailed
    /\ outcome = "panicked"
    /\ cats = <<>>

\* -------------------------------------------------------------------- C20

\* The strings the last call passed to insert_cat are the first k strings
\* of the column that are no nulls, in row order: all of them when the call
\* returned, and when insert_cat failed those up to the one that failed.
InsertedPrefix ==
    LET all == NonNulls(columns[CatCol], 1) IN
    /\ Len(inserts) <= Len(all)
    /\ inserts = SubSeq(all, 1, Len(inserts))
    /\ outcome = "returned" => inserts = all
    /\ outcome = "panicked" => InsertFailed

\* C20 (one insert per non-null row): decode_str_as_cat calls insert_cat
\* once for every non-null row, in increasing row order and with the row's
\* decoded string, and never for a null row or with the placeholder, before
\* and after the first null: the sequence of inserts is the sequence of
\* the non-null values in row order.
InsertsInRowOrder ==
    (phase = "decode" /\ outcome # "running") => InsertedPrefix

\* The empty string before and after the first null: two inserts of "",
\* none for the null row between them.
InsertsInRowOrderWitness ==
    /\ phase = "decode"
    /\ outcome = "returned"
    /\ columns[1] = <<Some(<<>>), None, Some(<<>>)>>
    /\ inserts = <<<<>>, <<>>>>
    /\ cats[1].values = <<cat_of(mapping, <<>>), 0, cat_of(mapping, <<>>)>>

\* -------------------------------------------------------------------- C14

\* The row does not start with a value of a string column: it is empty, or
\* it starts with no sentinel and holds no terminator.
Mismatched(row, opt) ==
    \/ Len(row) = 0
    \/ /\ row[1] # null_sentinel(opt)
       /\ \A k \in 1..Len(row) : row[k] # WireTerminator(opt)

\* Some row the last call was given does not start with a value.
SchemaMismatch ==
    /\ phase \in {"raw", "measured", "decoded"}
    /\ outcome # "running"
    /\ \E i \in 1..Len(entry_rows) : Mismatched(entry_rows[i], options[1])

\* C14 (as stated): called on a row whose remaining slice is empty or holds
\* no terminator, the decoder reports an error to its caller and neither
\* reads nor moves the slice past its end.  (A build that stops the process
\* at the broken contract is counted as reporting: it is the calls that
\* return which refute the statement.)
MismatchSurfaced == SchemaMismatch => outcome \in {"error", "aborted"}

\* decode_str returned from an empty first slice, having read the byte
\* behind it as no sentinel and decoded an empty string.
MismatchWitness ==
    /\ phase = "decoded"
    /\ options[1] = {}
    /\ entry_rows = <<<<>>, <<1>>>>
    /\ junk = 99
    /\ oob
    /\ outcome = "returned"
    /\ arrays[1] = [values |-> <<<<>>, <<>>>>, validity |-> None]

\* -------------------------------------------------------------------- C16

\* The byte the single-byte row holds, and whether the +2 shift of
\* encode_str handled it safely: b + 2 fits in 8 bits, and the byte written
\* for it is no null sentinel (0x00, 0xFF) and not the terminator of the
\* column's direction.
InputByte == Unwrap(Item(1))[1]
ShiftSafe ==
    /\ InputByte + 2 <= 255
    /\ FirstByte(1) = Xor8(xor_mask(Opt), InputByte + 2)
    /\ FirstByte(1) \notin {0, 255}
    /\ FirstByte(1) # encode_terminator(xor_mask(Opt))

FreshMem == Mem([p \in 1..Len(buffer) |-> Uninit], [p \in 1..Len(buffer) |-> 0], FALSE)
FreshOffsets == SubSeq(row_starts, 1, NRows)

\* encode_str called on the rows lo..hi: their cursors and their items.
encode_range(mem, lo, hi) ==
    encode_str(mem, SubSeq(columns[1], lo, hi), options[1], SubSeq(FreshOffsets, lo, hi))

\* The two calls one after the other: the buffer, and the cursors of either.
OneAfterTheOther ==
    LET first == encode_range(FreshMem, threads[1].lo, threads[1].hi)
        second == encode_range(first.mem, threads[2].lo, threads[2].hi)
    IN  [mem |-> second.mem, offsets |-> first.offsets \o second.offsets]

\* C15 (concurrent encoding on disjoint data): two encode_str calls on the
\* same buffer over disjoint row ranges, each cursor placed by the length
\* oracle, write disjoint sets of byte positions, each inside the buffer and
\* at most once, and whatever the interleaving of their byte writes and
\* cursor updates, once both are done the buffer and the offsets are those
\* of running the calls one after the other.
DisjointWrites ==
    threads # <<>> =>
        /\ ~oob
        /\ threads[1].written \cap threads[2].written = {}
        /\ \A p \in 1..Len(buffer) :
               nwrites[p] = IF (p - 1) \in threads[1].written \cup threads[2].written
                            THEN 1 ELSE 0
        /\ (threads[1].pc = "done" /\ threads[2].pc = "done") =>
               /\ buffer = OneAfterTheOther.mem.buffer
               /\ nwrites = OneAfterTheOther.mem.nwrites
               /\ offsets = OneAfterTheOther.offsets

\* Both calls under way: the first has written "a" and its terminator and
\* not yet moved its cursor, the second has written the first byte of its
\* first row, and the null of the last row is yet to come.
DisjointWritesWitness ==
    /\ columns[1] = <<Some(CharA), Some(CharA), None>>
    /\ options[1] = {}
    /\ Len(threads) = 2
    /\ threads[1] = [lo |-> 1, hi |-> 1, i |-> 1, j |-> 1, pc |-> "advance",
                      written |-> {0, 1}]
    /\ threads[2] = [lo |-> 2, hi |-> 3, i |-> 2, j |-> 1, pc |-> "write",
                      written |-> {2}]
    /\ buffer = <<99, 1, 99, Uninit, Uninit>>
    /\ offsets = <<0, 2, 4>>

\* -------------------------------------------------------------------- C21

\* C21 (len_from_buffer agrees with the length oracle): on a slice that
\* starts with the encoding of a value, whatever the options and whatever
\* bytes of later columns follow, len_from_buffer stays inside the slice and
\* returns len_from_item of the value, 1 for a null and the payload length
\* + 1 otherwise, and decode_str then takes exactly that many bytes from
\* the slice.
BufferLenIsItemLen ==
    phase = "decode" =>
        /\ ~oob
        /\ \A c \in 1..Len(lens) : \A i \in 1..NRows :
               /\ lens[c][i] = len_from_item(str_len(columns[c][i]), options[c])
               /\ lens[c][i] = IF IsNone(columns[c][i]) THEN 1
                                ELSE Len(Unwrap(columns[c][i])) + 1
        /\ (DecCol >= 1 /\ Len(lens) = DecCol) =>
               \A i \in 1..NRows : Consumed(i) = lens[DecCol][i]

\* The first column measured and decoded: one byte for the null of the
\* first row and four for the three-byte descending string of the second,
\* with the bytes of the second column behind both.
BufferLenIsItemLenWitness ==
    /\ phase = "decode"
    /\ NCols >= 2
    /\ DecCol = 1
    /\ columns[1] = <<None, Some(CharA \o CharU80)>>
    /\ columns[2] = <<Some(CharA \o CharU80), None>>
    /\ options[1] = {DESCENDING}
    /\ options[2] = {NULLS_LAST}
    /\ lens = <<<<1, 4>>>>
    /\ Consumed(1) = 1
    /\ Consumed(2) = 4
    /\ Len(rows[1]) = 4

\* -------------------------------------------------------------------- C22

\* The pairs of an offset and an item the last call had: the shorter of
\* the two counts.
Pairs == Min(Len(entry_offsets), Len(input))

\* C22 (frame of encode_str): with m offsets and n items encode_str
\* processes the first min(m, n) pairs and no other: each of these offsets
\* has moved over the encoding of its item, offsets[min(m, n)..] are as
\* they were, and the buffer cells written, each once, are those of the
\* ranges [old offsets[i], new offsets[i]) of the processed pairs; every
\* other cell is untouched.
EncodeFrameOnly ==
    (phase = "encode" /\ encoded = 1) =>
        /\ ~oob
        /\ Len(offsets) = Len(entry_offsets)
        /\ \A i \in 1..Pairs :
               /\ offsets[i] = entry_offsets[i] + len_from_item(str_len(input[i]), Opt)
               /\ Bytes(i) = Wire(input[i], Opt)
        /\ \A i \in (Pairs + 1)..Len(offsets) : offsets[i] = entry_offsets[i]
        /\ \A p \in 1..Len(buffer) :
               IF \E i \in 1..Pairs : entry_offsets[i] < p /\ p <= offsets[i]
               THEN nwrites[p] = 1 /\ buffer[p] # Uninit
               ELSE nwrites[p] = 0 /\ buffer[p] = Uninit

\* Four offsets and two items: "a" and the null are written, the cursor of
\* the third row and the end of the rows stay, and so does the cell of the
\* third row.
EncodeFrameOnlyWitness ==
    /\ phase = "encode"
    /\ encoded = 1
    /\ options[1] = {}
    /\ columns[1] = <<Some(CharA), None, Some(<<>>)>>
    /\ input = <<Some(CharA), None>>
    /\ entry_offsets = <<0, 2, 3, 4>>
    /\ offsets = <<2, 3, 3, 4>>
    /\ buffer = <<99, 1, 0, Uninit>>

\* -------------------------------------------------------------------- C23

Called == Unwrap(call)

\* Two opts vectors that agree in all the mode may depend on: both ask for
\* the unordered encoding with their first tuple, or neither does and they
\* agree in length and in every descending and nulls_last flag.
SameRequest(o1, o2) ==
    LET u1 == Len(o1) > 0 /\ o1[1][3]
        u2 == Len(o2) > 0 /\ o2[1][3]
    IN  \/ u1 /\ u2
        \/ /\ ~u1 /\ ~u2
           /\ Len(o1) = Len(o2)
           /\ \A i \in 1..Len(o1) : o1[i][1] = o2[i][1] /\ o1[i][2] = o2[i][2]

\* C23 (mode of _row_encode): the unordered encoder is called, for all the
\* columns and without any flag, exactly when opts is non-empty and the
\* third flag of opts[0] is set; otherwise the ordered encoder is called
\* with the descending and nulls_last flag of every column.  Nothing else
\* of opts has a part in it: any opts that agree in these would have led to
\* this very call.
ModeFromFirstTuple ==
    IsSome(call) =>
        /\ Called.by = columns
        /\ Called.fn = "_get_rows_encoded_ca_unordered"
               <=> (Len(py_opts) > 0 /\ py_opts[1][3])
        /\ Called.fn = "_get_rows_encoded_ca_unordered"
               => DOMAIN Called = {"fn", "name", "by"}
        /\ Called.fn # "_get_rows_encoded_ca_unordered" =>
               /\ Called.fn = "_get_rows_encoded_ca"
               /\ Called.descending = [i \in 1..Len(py_opts) |-> py_opts[i][1]]
               /\ Called.nulls_last = [i \in 1..Len(py_opts) |-> py_opts[i][2]]
        /\ \A o \in AllOpts :
               SameRequest(o, py_opts) => row_encode(columns, o) = Called

\* The second column alone asks for the unordered encoding: the ordered
\* encoder is called, with both columns' flags.
ModeFromFirstTupleWitness ==
    /\ IsSome(call)
    /\ py_opts = <<<<TRUE, FALSE, FALSE>>, <<FALSE, TRUE, TRUE>>>>
    /\ Called.fn = "_get_rows_encoded_ca"
    /\ Called.descending = <<TRUE, FALSE>>
    /\ Called.nulls_last = <<FALSE, TRUE>>

====
